---- MODULE Spec2Model ----
(***************************************************************************)
(* The two gumball-machine front-ends of the repository:                   *)
(*   "toolkit": full-stack/dapp-toolkit-gumball-machine/client/main.js     *)
(*   "sdk"    : full-stack/wallet-sdk-gumball-machine/src/index.ts         *)
(* Every button handler is an async function: a click runs the handler up  *)
(* to its first await (the call is issued, the handler suspends), and each *)
(* return of an awaited call runs it up to the next await or to its end.   *)
(* The wallet and the gateway are external: their answers are chosen       *)
(* nondeterministically.                                                   *)
(***************************************************************************)
EXTENDS Integers, Sequences, FiniteSets, TLC

VARIABLES
    frontend,             \* which of the two pages is loaded
    accountAddress,       \* main.js:24, index.ts:21
    componentAddress,     \* main.js:25, index.ts:22
    gum_resourceAddress,  \* main.js:26 (index.ts:23 resourceAddress)
    admin_badge,          \* main.js:29
    owner_badge,          \* main.js:30
    dom,                  \* innerText of the elements the handlers write
    chains,               \* the async handler invocations started so far
    sent,                 \* the wallet's log of sendTransaction calls
    clicks,               \* number of clicks on transaction buttons
    lastStored            \* the chain that last ran main.js:73-86 (0: none)

vars == <<frontend, accountAddress, componentAddress, gum_resourceAddress,
          admin_badge, owner_badge, dom, chains, sent, clicks, lastStored>>

-----------------------------------------------------------------------------
(* Bounds and input sets *)

MaxChains == 2

Packages == {"pkg1", "pkg2"}
Flavors == {"BANANA", "MINT"}
NewPrices == {"7", "9"}
LedgerPrices == {"8"}
\* the account lists the wallet may share: none, one or two accounts
Account1 == [address |-> "addr1", label |-> "Main"]
Account2 == [address |-> "addr2", label |-> "Savings"]
AccountLists == {<<>>, <<Account1>>, <<Account1, Account2>>}

-----------------------------------------------------------------------------
(* JavaScript values *)

\* a variable declared without initialiser, or an index out of range
Undefined == "#undefined"

\* `${v}` in a template literal, and what a builder renders for a value
Interp(v) == IF v = Undefined THEN "undefined" ELSE v

\* list[i] with JavaScript's 0-based index
At(list, i) == IF i + 1 \in DOMAIN list THEN list[i + 1] ELSE Undefined

RECURSIVE Join(_)
Join(list) ==
    IF list = <<>> THEN ""
    ELSE IF Len(list) = 1 THEN list[1]
    ELSE list[1] \o "," \o Join(Tail(list))

\* JSON.stringify of a string value
StringifyValue(s) == "\"" \o s \o "\""

\* JSON.stringify of a committed-details response
StringifyReceipt(r) ==
    "{transaction:{affected_global_entities:["
        \o Join(r.transaction.affected_global_entities) \o "]}}"

-----------------------------------------------------------------------------
(* Module-level constants of main.js *)

InitComponentAddress ==
    "component_tdx_e_1crt0ndkk0x7rexswhczacj2405tgzh0zv3t0fr7czdxnd8y8vgjuyw"
InitGumResourceAddress ==
    "resource_tdx_e_1t5hrjudhk4yd5m4svujx5ytvtvjaj5ufuahxaauru72ed7vrce8q34"
xrdAddress ==
    "resource_tdx_e_1tknxxxxxxxxxradxrdxxxxxxxxx009923554798xxxxxxxxx8rpsmc"
InitAdminBadge ==
    "resource_tdx_e_1t5kmfczjh3g5vs7gj9jcarmgt0u29qfj50kngxqv2cnny9rr89fd94"
InitOwnerBadge ==
    "resource_tdx_e_1tk35c2pnzy4fr6ms5wpm8v4rsw76h7ptyydvqgs88jk58eqmaeqt45"
\* the resource literal of index.ts:89-90
SdkResource ==
    "resource_tdx_b_1qzkcyv5dwq3r6kawy6pxpvcythx8rh8ntum6ws62p95s9hhz9x"

InstantiatePrice == 5
BuyAmount == 33
ProofAmount == 1
SdkInstantiatePrice == 10
SdkBuyAmount == 10

-----------------------------------------------------------------------------
(* Manifests: a sequence of instructions, each a sequence of tokens *)

Address(a) == "Address(" \o Interp(a) \o ")"
Decimal(n) == "Decimal(" \o ToString(n) \o ")"
DecimalStr(s) == "Decimal(" \o Interp(s) \o ")"
Str(s) == "'" \o Interp(s) \o "'"
Bucket(b) == "Bucket(" \o b \o ")"
EntireWorktop == "Expression(ENTIRE_WORKTOP)"

DepositBatch(account) ==
    <<"CALL_METHOD", Address(account), "deposit_batch", EntireWorktop>>

CreateProof(account, badge) ==
    <<"CALL_METHOD", Address(account), "create_proof_of_amount",
      Address(badge), Decimal(ProofAmount)>>

\* mutant: the instantiation leaves the new badges on the worktop
InstantiateManifestNoDeposit(packageAddress, flavor, account) ==
    << <<"CALL_FUNCTION", Address(packageAddress), "GumballMachine",
         "instantiate_gumball_machine", Decimal(InstantiatePrice), Str(flavor)>> >>

\* main.js:39-50
InstantiateManifest(packageAddress, flavor, account) ==
    << <<"CALL_FUNCTION", Address(packageAddress), "GumballMachine",
         "instantiate_gumball_machine", Decimal(InstantiatePrice), Str(flavor)>>,
       DepositBatch(account) >>

\* mutant: the bucket is filled from another resource than the one withdrawn
BuyManifestOtherResource(account, component) ==
    << <<"CALL_METHOD", Address(account), "withdraw",
         Address(xrdAddress), Decimal(BuyAmount)>>,
       <<"TAKE_ALL_FROM_WORKTOP", Address(InitGumResourceAddress), Bucket("xrd")>>,
       <<"CALL_METHOD", Address(component), "buy_gumball", Bucket("xrd")>>,
       DepositBatch(account) >>

\* main.js:92-109
BuyManifest(account, component) ==
    << <<"CALL_METHOD", Address(account), "withdraw",
         Address(xrdAddress), Decimal(BuyAmount)>>,
       <<"TAKE_ALL_FROM_WORKTOP", Address(xrdAddress), Bucket("xrd")>>,
       <<"CALL_METHOD", Address(component), "buy_gumball", Bucket("xrd")>>,
       DepositBatch(account) >>

\* main.js:148-158
SetPriceManifest(account, badge, component, newPrice) ==
    << CreateProof(account, badge),
       <<"CALL_METHOD", Address(component), "set_price", DecimalStr(newPrice)>> >>

\* mutant: the privileged call comes before the proof
WithdrawManifestCallFirst(account, badge, component) ==
    << <<"CALL_METHOD", Address(component), "withdraw_earnings">>,
       CreateProof(account, badge),
       DepositBatch(account) >>

\* main.js:184-197
WithdrawManifest(account, badge, component) ==
    << CreateProof(account, badge),
       <<"CALL_METHOD", Address(component), "withdraw_earnings">>,
       DepositBatch(account) >>

\* main.js:223-237
MintManifest(account, badge, component) ==
    << CreateProof(account, badge),
       <<"CALL_METHOD", Address(component), "mint_staff_badge", Str("Number2")>>,
       DepositBatch(account) >>

\* index.ts:51-54
SdkInstantiateManifest(packageAddress) ==
    << <<"CALL_FUNCTION", Address(packageAddress), "GumballMachine",
         "instantiate_gumball_machine", Decimal(SdkInstantiatePrice)>> >>

\* index.ts:88-94
SdkBuyManifest(account, component) ==
    << <<"CALL_METHOD", Address(account), "withdraw_by_amount",
         Decimal(SdkBuyAmount), Address(SdkResource)>>,
       <<"TAKE_FROM_WORKTOP_BY_AMOUNT", Decimal(SdkBuyAmount),
         Address(SdkResource), Bucket("bucket1")>>,
       <<"CALL_METHOD", Address(component), "buy_gumball", Bucket("bucket1")>>,
       DepositBatch(account) >>

-----------------------------------------------------------------------------
(* The external collaborators' answers *)

EntityCount == 7

\* result.value.transactionIntentHash of the c-th handler invocation
IntentHash(c) == "txid_" \o ToString(c)

\* the gateway's committed-details response for an intent hash
CommittedDetails(hash) ==
    [transaction |->
        [affected_global_entities |->
            [i \in 1..EntityCount |-> "entity" \o ToString(i - 1) \o "_" \o hash]]]

NoReceipt == [transaction |-> [affected_global_entities |-> <<>>]]

\* the gateway's entity-state response for a component whose price is p
EntityDetails(p) ==
    [details |-> [state |-> [fields |->
        << [value |-> "gumballs"], [value |-> "collected_xrd"], [value |-> p] >>]]]

-----------------------------------------------------------------------------
(* State *)

ElementIds ==
    {"accountName", "accountAddress", "componentAddress", "admin_badge",
     "owner_badge", "gum_resourceAddress", "receipt", "price", "withdraw",
     "staffBadge"}

\* the module-level variables of the page
Session ==
    [accountAddress |-> accountAddress,
     componentAddress |-> componentAddress,
     gum_resourceAddress |-> gum_resourceAddress,
     admin_badge |-> admin_badge,
     owner_badge |-> owner_badge]

NoInputs == [packageAddress |-> "", flavor |-> "", newPrice |-> ""]

Step(op, arg) == [op |-> op, arg |-> arg]

Init ==
    /\ frontend \in {"toolkit", "sdk"}
    /\ accountAddress = Undefined
    /\ componentAddress =
          IF frontend = "toolkit" THEN InitComponentAddress ELSE Undefined
    /\ gum_resourceAddress =
          IF frontend = "toolkit" THEN InitGumResourceAddress ELSE Undefined
    /\ admin_badge = IF frontend = "toolkit" THEN InitAdminBadge ELSE Undefined
    /\ owner_badge = IF frontend = "toolkit" THEN InitOwnerBadge ELSE Undefined
    /\ dom = [id \in ElementIds |-> ""]
    /\ chains = <<>>
    /\ sent = <<>>
    /\ clicks = 0
    /\ lastStored = 0

\* a handler invocation suspended at its first await
NewChain(action, inputs, manifest, pc, arg) ==
    [action |-> action, pc |-> pc, inputs |-> inputs, manifest |-> manifest,
     at |-> Session, hash |-> "", steps |-> <<Step(pc, arg)>>,
     receipt |-> NoReceipt, error |-> ""]

\* mutant: the submitted manifest carries a running number
SendTransactionNumbered(action, inputs, manifest) ==
    LET numbered == Append(manifest, <<"NUMBER", ToString(Len(sent))>>) IN
    /\ chains' = Append(chains,
                    NewChain(action, inputs, numbered, "sendTransaction", ""))
    /\ sent' = Append(sent, numbered)

\* mutant: the handler refuses to submit while no account is connected
SendTransactionValidated(action, inputs, manifest) ==
    IF accountAddress = Undefined
    THEN /\ chains' = Append(chains,
                  [NewChain(action, inputs, manifest, "thrown", "")
                      EXCEPT !.error = "validation"])
         /\ sent' = sent
    ELSE /\ chains' = Append(chains,
                  NewChain(action, inputs, manifest, "sendTransaction", ""))
         /\ sent' = Append(sent, manifest)

\* rdt.walletApi.sendTransaction / walletSdk.sendTransaction, then await
SendTransaction(action, inputs, manifest) ==
    /\ chains' = Append(chains,
                    NewChain(action, inputs, manifest, "sendTransaction", ""))
    /\ sent' = Append(sent, manifest)

SessionUnchanged ==
    UNCHANGED <<accountAddress, componentAddress, gum_resourceAddress,
                admin_badge, owner_badge>>

-----------------------------------------------------------------------------
(* The toolkit front-end's handlers, up to their first await *)

CanClick(page) == frontend = page /\ Len(chains) < MaxChains

Inputs(packageAddress, flavor, newPrice) ==
    [packageAddress |-> packageAddress, flavor |-> flavor, newPrice |-> newPrice]

\* mutant: the callback takes the last shared account, not the first
walletDataLastAccount(accounts) ==
    /\ frontend = "toolkit"
    /\ IF accounts = <<>>
       THEN UNCHANGED <<dom, accountAddress>>
       ELSE /\ dom' = [dom EXCEPT
                         !["accountName"] = At(accounts, Len(accounts) - 1).label,
                         !["accountAddress"] = At(accounts, Len(accounts) - 1).address]
            /\ accountAddress' = At(accounts, Len(accounts) - 1).address
    /\ UNCHANGED <<frontend, componentAddress, gum_resourceAddress, admin_badge,
                   owner_badge, chains, sent, clicks, lastStored>>

\* rdt.walletApi.walletData$.subscribe callback, main.js:15-20
walletData(accounts) ==
    /\ frontend = "toolkit"
    /\ IF accounts = <<>>
       THEN \* accounts[0] is undefined: reading .label throws
            UNCHANGED <<dom, accountAddress>>
       ELSE /\ dom' = [dom EXCEPT !["accountName"] = At(accounts, 0).label,
                                  !["accountAddress"] = At(accounts, 0).address]
            /\ accountAddress' = At(accounts, 0).address
    /\ UNCHANGED <<frontend, componentAddress, gum_resourceAddress, admin_badge,
                   owner_badge, chains, sent, clicks, lastStored>>

\* main.js:36-58
instantiateComponent_onclick(packageAddress, flavor) ==
    /\ CanClick("toolkit")
    /\ clicks' = clicks + 1
    /\ SendTransaction("instantiateComponent", Inputs(packageAddress, flavor, ""),
                       InstantiateManifest(packageAddress, flavor, accountAddress))
    /\ SessionUnchanged
    /\ UNCHANGED <<frontend, dom, lastStored>>

\* main.js:91-117
buyGumball_onclick ==
    /\ CanClick("toolkit")
    /\ clicks' = clicks + 1
    /\ SendTransaction("buyGumball", NoInputs,
                       BuyManifest(accountAddress, componentAddress))
    /\ SessionUnchanged
    /\ UNCHANGED <<frontend, dom, lastStored>>

\* main.js:135-137
getPrice_onclick ==
    /\ CanClick("toolkit")
    /\ chains' = Append(chains,
                    NewChain("getPrice", NoInputs, <<>>,
                             "getEntityDetailsVaultAggregated", componentAddress))
    /\ SessionUnchanged
    /\ UNCHANGED <<frontend, dom, sent, clicks, lastStored>>

\* main.js:146-166
setPrice_onclick(newPrice) ==
    /\ CanClick("toolkit")
    /\ clicks' = clicks + 1
    /\ SendTransaction("setPrice", Inputs("", "", newPrice),
                       SetPriceManifest(accountAddress, admin_badge,
                                        componentAddress, newPrice))
    /\ SessionUnchanged
    /\ UNCHANGED <<frontend, dom, lastStored>>

\* main.js:182-205
withdrawEarnings_onclick ==
    /\ CanClick("toolkit")
    /\ clicks' = clicks + 1
    /\ SendTransaction("withdrawEarnings", NoInputs,
                       WithdrawManifest(accountAddress, owner_badge, componentAddress))
    /\ SessionUnchanged
    /\ UNCHANGED <<frontend, dom, lastStored>>

\* main.js:221-245
mintStaffBadge_onclick ==
    /\ CanClick("toolkit")
    /\ clicks' = clicks + 1
    /\ SendTransaction("mintStaffBadge", NoInputs,
                       MintManifest(accountAddress, admin_badge, componentAddress))
    /\ SessionUnchanged
    /\ UNCHANGED <<frontend, dom, lastStored>>

-----------------------------------------------------------------------------
(* The wallet-SDK front-end's handlers, up to their first await *)

\* index.ts:27-33
sdk_fetchAccountAddress_onclick ==
    /\ CanClick("sdk")
    /\ chains' = Append(chains,
                    NewChain("fetchAccountAddress", NoInputs, <<>>, "request", ""))
    /\ SessionUnchanged
    /\ UNCHANGED <<frontend, dom, sent, clicks, lastStored>>

\* index.ts:48-61
sdk_instantiateComponent_onclick(packageAddress) ==
    /\ CanClick("sdk")
    /\ clicks' = clicks + 1
    /\ SendTransaction("instantiateComponent", Inputs(packageAddress, "", ""),
                       SdkInstantiateManifest(packageAddress))
    /\ SessionUnchanged
    /\ UNCHANGED <<frontend, dom, lastStored>>

\* index.ts:86-101
sdk_buyGumball_onclick ==
    /\ CanClick("sdk")
    /\ clicks' = clicks + 1
    /\ SendTransaction("buyGumball", NoInputs,
                       SdkBuyManifest(accountAddress, componentAddress))
    /\ SessionUnchanged
    /\ UNCHANGED <<frontend, dom, lastStored>>

-----------------------------------------------------------------------------
(* The handlers' continuations: one per awaited call that returns *)

\* the handler issues its next call and suspends on it
Await(ch, pc, arg) ==
    [ch EXCEPT !.pc = pc, !.steps = Append(@, Step(pc, arg))]

\* the handler runs to its end, having taken these last steps
Done(ch, steps) == [ch EXCEPT !.pc = "done", !.steps = @ \o steps]

\* the handler's promise rejects
Thrown(ch, err) == [ch EXCEPT !.pc = "thrown", !.error = err]

Awaiting(c, pcs) == c \in DOMAIN chains /\ chains[c].pc \in pcs

\* mutant: the handler reports in the page before it checks the result
ThrowAfterUpdate(c) ==
    /\ chains' = [chains EXCEPT ![c] = Thrown(@, "wallet")]
    /\ dom' = [dom EXCEPT !["receipt"] = "error"]
    /\ SessionUnchanged
    /\ UNCHANGED lastStored

\* `if (result.isErr()) throw result.error`, main.js:59,118,167,206,246 and
\* index.ts:35-37,63,103
ThrowResultError(c) ==
    /\ chains' = [chains EXCEPT ![c] = Thrown(@, "wallet")]
    /\ SessionUnchanged
    /\ UNCHANGED <<dom, lastStored>>

\* mutant: the committed details are fetched without the status query
AfterSendSkipStatus(ch) ==
    IF frontend = "toolkit"
    THEN IF ch.action = "setPrice"
         THEN Await(ch, "getStatus", ch.hash)
         ELSE Await(ch, "getCommittedDetails", ch.hash)
    ELSE IF ch.action = "instantiateComponent"
         THEN Await(ch, "transactionStatus", ch.hash)
         ELSE Done(ch, <<>>)

\* after a successful wallet result: main.js:60-64, 119-122, 168-171,
\* 207-210, 248-251; index.ts:65-75, 105-114
AfterSend(ch) ==
    IF frontend = "toolkit" THEN Await(ch, "getStatus", ch.hash)
    ELSE IF ch.action = "instantiateComponent"
         THEN Await(ch, "transactionStatus", ch.hash)
         ELSE Done(ch, <<>>)

\* the await of sendTransaction returns: main.js:54-64, 113-122, 162-171,
\* 201-210, 241-251; index.ts:57-75, 97-105
sendTransactionReturn(c, isErr) ==
    /\ Awaiting(c, {"sendTransaction"})
    /\ IF isErr
       THEN ThrowResultError(c)
       ELSE /\ chains' = [chains EXCEPT
                            ![c] = AfterSend([@ EXCEPT !.hash = IntentHash(c)])]
            /\ SessionUnchanged
            /\ UNCHANGED <<dom, lastStored>>
    /\ UNCHANGED <<frontend, sent, clicks>>

\* after the status query has returned: main.js:65-69, 123-126, 172-173,
\* 211-214, 252-255; index.ts:76-84
AfterStatus(ch) ==
    IF frontend = "sdk" THEN Done(ch, <<>>)
    ELSE IF ch.action = "setPrice"
         THEN Await(ch, "getEntityDetailsVaultAggregated", componentAddress)
         ELSE Await(ch, "getCommittedDetails", ch.hash)

\* the await of the status query returns
getStatusReturn(c) ==
    /\ Awaiting(c, {"getStatus", "transactionStatus"})
    /\ chains' = [chains EXCEPT ![c] = AfterStatus(@)]
    /\ SessionUnchanged
    /\ UNCHANGED <<frontend, dom, sent, clicks, lastStored>>

\* mutant: the handler stops between the assignments of lines 77 and 81
StoreAddressesPartial(c, getCommitReceipt) ==
    LET entities == getCommitReceipt.transaction.affected_global_entities IN
    /\ componentAddress' = At(entities, 2)
    /\ admin_badge' = At(entities, 4)
    /\ dom' = [dom EXCEPT !["componentAddress"] = At(entities, 2),
                          !["admin_badge"] = At(entities, 4)]
    /\ lastStored' = c
    /\ UNCHANGED <<accountAddress, owner_badge, gum_resourceAddress>>

\* mutant: a chain keeps the addresses another chain has already stored
StoreAddressesFirstWins(c, getCommitReceipt) ==
    LET entities == getCommitReceipt.transaction.affected_global_entities IN
    /\ IF lastStored = 0
       THEN /\ componentAddress' = At(entities, 2)
            /\ admin_badge' = At(entities, 4)
            /\ owner_badge' = At(entities, 3)
            /\ gum_resourceAddress' = At(entities, 6)
            /\ dom' = [dom EXCEPT !["componentAddress"] = At(entities, 2),
                                  !["admin_badge"] = At(entities, 4),
                                  !["owner_badge"] = At(entities, 3),
                                  !["gum_resourceAddress"] = At(entities, 6)]
       ELSE UNCHANGED <<componentAddress, admin_badge, owner_badge,
                        gum_resourceAddress, dom>>
    /\ lastStored' = c
    /\ UNCHANGED accountAddress

\* main.js:73-86
StoreAddresses(c, getCommitReceipt) ==
    LET entities == getCommitReceipt.transaction.affected_global_entities IN
    /\ componentAddress' = At(entities, 2)
    /\ admin_badge' = At(entities, 4)
    /\ owner_badge' = At(entities, 3)
    /\ gum_resourceAddress' = At(entities, 6)
    /\ dom' = [dom EXCEPT !["componentAddress"] = At(entities, 2),
                          !["admin_badge"] = At(entities, 4),
                          !["owner_badge"] = At(entities, 3),
                          !["gum_resourceAddress"] = At(entities, 6)]
    /\ lastStored' = c
    /\ UNCHANGED accountAddress

StoreSteps ==
    << Step("store", "componentAddress"), Step("ui", "componentAddress"),
       Step("store", "admin_badge"), Step("ui", "admin_badge"),
       Step("store", "owner_badge"), Step("ui", "owner_badge"),
       Step("store", "gum_resourceAddress"), Step("ui", "gum_resourceAddress") >>

\* the element a handler shows its receipt in: main.js:130, 218, 259
ReceiptElement(action) ==
    CASE action = "buyGumball" -> "receipt"
      [] action = "withdrawEarnings" -> "withdraw"
      [] action = "mintStaffBadge" -> "staffBadge"

\* the await of getCommittedDetails returns: main.js:69-87, 126-131,
\* 214-219, 255-260
getCommittedDetailsReturn(c) ==
    /\ Awaiting(c, {"getCommittedDetails"})
    /\ LET getCommitReceipt == CommittedDetails(chains[c].hash)
           ch == [chains[c] EXCEPT !.receipt = getCommitReceipt]
       IN  IF ch.action = "instantiateComponent"
           THEN /\ StoreAddresses(c, getCommitReceipt)
                /\ chains' = [chains EXCEPT ![c] = Done(ch, StoreSteps)]
           ELSE /\ dom' = [dom EXCEPT ![ReceiptElement(ch.action)] =
                                        StringifyReceipt(getCommitReceipt)]
                /\ chains' = [chains EXCEPT
                     ![c] = Done(ch, <<Step("ui", ReceiptElement(ch.action))>>)]
                /\ SessionUnchanged
                /\ UNCHANGED lastStored
    /\ UNCHANGED <<frontend, sent, clicks>>

\* mutant: the neighbouring field is shown
PriceFieldOffByOne(getPrice) == At(getPrice.details.state.fields, 1).value

\* the field of the component state shown as the price: main.js:141, 177
PriceField(getPrice) == At(getPrice.details.state.fields, 2).value

\* the await of getEntityDetailsVaultAggregated returns: main.js:137-142,
\* 173-178
getEntityDetailsReturn(c, p) ==
    /\ Awaiting(c, {"getEntityDetailsVaultAggregated"})
    /\ dom' = [dom EXCEPT !["price"] = StringifyValue(PriceField(EntityDetails(p)))]
    /\ chains' = [chains EXCEPT ![c] = Done(@, <<Step("ui", "price")>>)]
    /\ SessionUnchanged
    /\ UNCHANGED <<frontend, sent, clicks, lastStored>>

GatewayCalls ==
    {"getStatus", "transactionStatus", "getCommittedDetails",
     "getEntityDetailsVaultAggregated"}

\* an awaited gateway call rejects: the handler has no try/catch
gatewayReject(c) ==
    /\ Awaiting(c, GatewayCalls)
    /\ chains' = [chains EXCEPT ![c] = Thrown(@, "gateway")]
    /\ SessionUnchanged
    /\ UNCHANGED <<frontend, dom, sent, clicks, lastStored>>

\* the await of walletSdk.request returns: index.ts:35-45
\* res: "err", or the oneTimeAccounts of result.value (<<>> when absent)
requestReturn(c, isErr, oneTimeAccounts) ==
    /\ Awaiting(c, {"request"})
    /\ IF isErr
       THEN ThrowResultError(c)
       ELSE /\ UNCHANGED lastStored
            /\ IF oneTimeAccounts = <<>>
               THEN /\ chains' = [chains EXCEPT ![c] = Done(@, <<>>)]
                    /\ UNCHANGED <<dom, accountAddress>>
               ELSE /\ dom' = [dom EXCEPT
                                 !["accountAddress"] = At(oneTimeAccounts, 0).address]
                    /\ accountAddress' = At(oneTimeAccounts, 0).address
                    /\ chains' = [chains EXCEPT ![c] =
                          Done(@, << Step("ui", "accountAddress"),
                                     Step("store", "accountAddress") >>)]
            /\ UNCHANGED <<componentAddress, gum_resourceAddress,
                           admin_badge, owner_badge>>
    /\ UNCHANGED <<frontend, sent, clicks>>

-----------------------------------------------------------------------------

Next ==
    \/ \E accounts \in AccountLists : walletData(accounts)
    \/ \E packageAddress \in Packages, flavor \in Flavors :
          instantiateComponent_onclick(packageAddress, flavor)
    \/ buyGumball_onclick
    \/ getPrice_onclick
    \/ \E newPrice \in NewPrices : setPrice_onclick(newPrice)
    \/ withdrawEarnings_onclick
    \/ mintStaffBadge_onclick
    \/ sdk_fetchAccountAddress_onclick
    \/ \E packageAddress \in Packages :
          sdk_instantiateComponent_onclick(packageAddress)
    \/ sdk_buyGumball_onclick
    \/ \E c \in 1..MaxChains, isErr \in BOOLEAN : sendTransactionReturn(c, isErr)
    \/ \E c \in 1..MaxChains : getStatusReturn(c)
    \/ \E c \in 1..MaxChains : getCommittedDetailsReturn(c)
    \/ \E c \in 1..MaxChains, p \in LedgerPrices : getEntityDetailsReturn(c, p)
    \/ \E c \in 1..MaxChains : gatewayReject(c)
    \/ \E c \in 1..MaxChains, isErr \in BOOLEAN, accounts \in AccountLists :
          requestReturn(c, isErr, accounts)

Spec == Init /\ [][Next]_vars

-----------------------------------------------------------------------------
(* Vocabulary of the properties *)

Chains == DOMAIN chains

\* the actions that build a manifest and submit it to the wallet
TxActions ==
    {"instantiateComponent", "buyGumball", "setPrice", "withdrawEarnings",
     "mintStaffBadge"}

AdminActions == {"setPrice", "withdrawEarnings", "mintStaffBadge"}

Ops(ch) == [i \in 1..Len(ch.steps) |-> ch.steps[i].op]

\* how often a handler invocation has made a call
Count(ch, op) == Cardinality({i \in 1..Len(ch.steps) : ch.steps[i].op = op})

Entities(c) == CommittedDetails(chains[c].hash).transaction.affected_global_entities

\* the step starts chain c, or is a step of chain c
Acts(c) ==
    /\ c \in DOMAIN chains'
    /\ c \in DOMAIN chains => chains'[c] # chains[c]

-----------------------------------------------------------------------------
\* C1: when the wallet result of an action is an error, the handler throws
\* that error having made no gateway call, and neither the click nor the
\* step that receives the error changes a Session State variable or a
\* displayed field.
C1_WalletErrorAborts ==
    [][\A c \in DOMAIN chains' :
         /\ c \notin Chains => Session' = Session /\ dom' = dom
         /\ (c \in Chains /\ chains[c].pc \in {"sendTransaction", "request"}
               /\ chains'[c].pc = "thrown")
            => /\ chains'[c].error = "wallet"
               /\ chains'[c].steps = chains[c].steps
               /\ Len(chains'[c].steps) = 1
               /\ Session' = Session
               /\ dom' = dom
         /\ (chains'[c].pc = "thrown" /\ chains'[c].error = "wallet")
            => \A i \in 1..Len(chains'[c].steps) :
                  chains'[c].steps[i].op \notin GatewayCalls]_vars

\* a Set Price whose wallet result was an error, after an Instantiate has
\* stored new addresses
C1_Witness ==
    \E c \in Chains :
        /\ chains[c].action = "setPrice"
        /\ chains[c].pc = "thrown"
        /\ chains[c].error = "wallet"
        /\ componentAddress # InitComponentAddress

\* C2: when an Instantiate action finishes after a successful wallet result,
\* componentAddress, owner_badge, admin_badge and gum_resourceAddress equal
\* entries [2], [3], [4] and [6] of the affected-global-entities list of the
\* committed details for that action's intent hash, and the page shows them
\* (until a later Instantiate stores its own).
C2_InstantiateStoresEntities ==
    \A c \in Chains :
        (chains[c].action = "instantiateComponent" /\ chains[c].pc = "done"
            /\ lastStored \in {0, c})
        => /\ componentAddress = At(Entities(c), 2)
           /\ owner_badge = At(Entities(c), 3)
           /\ admin_badge = At(Entities(c), 4)
           /\ gum_resourceAddress = At(Entities(c), 6)
           /\ dom["componentAddress"] = componentAddress
           /\ dom["owner_badge"] = owner_badge
           /\ dom["admin_badge"] = admin_badge
           /\ dom["gum_resourceAddress"] = gum_resourceAddress

\* the calls a handler invocation has made, without its store and ui steps
Calls(ch) == SelectSeq(ch.steps, LAMBDA st : st.op \notin {"store", "ui"})

IsPrefix(p, q) == Len(p) <= Len(q) /\ SubSeq(q, 1, Len(p)) = p

\* the steps of a handler that runs to its end with every call returning
Pipeline(page, action) ==
    IF page = "toolkit"
    THEN CASE action = "instantiateComponent" ->
                <<"sendTransaction", "getStatus", "getCommittedDetails",
                  "store", "ui", "store", "ui", "store", "ui", "store", "ui">>
           [] action \in {"buyGumball", "withdrawEarnings", "mintStaffBadge"} ->
                <<"sendTransaction", "getStatus", "getCommittedDetails", "ui">>
           [] action = "setPrice" ->
                <<"sendTransaction", "getStatus",
                  "getEntityDetailsVaultAggregated", "ui">>
    ELSE CASE action = "instantiateComponent" ->
                <<"sendTransaction", "transactionStatus">>
           [] action = "buyGumball" -> <<"sendTransaction">>

C4_OneSubmissionPerClick ==
    /\ Len(sent) = clicks
    /\ Cardinality({c \in Chains : chains[c].action \in TxActions}) = clicks
    /\ \A c \in Chains :
          Count(chains[c], "sendTransaction") =
             IF chains[c].action \in TxActions THEN 1 ELSE 0
    /\ \A c \in Chains :
          chains[c].action \in TxActions
          => sent[Cardinality({d \in 1..c : chains[d].action \in TxActions})]
                = chains[c].manifest

\* two clicks made while no account was connected, one ended by a wallet
\* error and one by a gateway failure: two submissions
C4_Witness ==
    /\ clicks = 2
    /\ Len(sent) = 2
    /\ \A c \in Chains : chains[c].at.accountAddress = Undefined
    /\ \E c, d \in Chains :
          /\ chains[c].pc = "thrown" /\ chains[c].error = "wallet"
          /\ chains[d].pc = "thrown" /\ chains[d].error = "gateway"

\* C5: Instantiate chains are not serialised, and the stored addresses are
\* those of the chain that processed its committed-details response last,
\* whichever was clicked first; every chain that processed its response ended
\* normally.
C5_LastChainWins ==
    /\ lastStored # 0 =>
          LET entities == chains[lastStored].receipt.transaction.affected_global_entities
          IN  /\ chains[lastStored].receipt = CommittedDetails(IntentHash(lastStored))
              /\ componentAddress = At(entities, 2)
              /\ owner_badge = At(entities, 3)
              /\ admin_badge = At(entities, 4)
              /\ gum_resourceAddress = At(entities, 6)
    /\ \A c \in Chains :
          chains[c].receipt # NoReceipt => chains[c].pc = "done"
    /\ (\E c \in Chains : chains[c].action = "instantiateComponent"
                            /\ chains[c].receipt # NoReceipt)
          => lastStored # 0

\* two Instantiate chains overlapped, the one clicked second processed its
\* response first, and the addresses stored at the end are the first one's
C5_Witness ==
    /\ Len(chains) = 2
    /\ \A c \in Chains : chains[c].action = "instantiateComponent"
                           /\ chains[c].pc = "done"
    /\ lastStored = 1
    /\ componentAddress = At(Entities(1), 2)
    /\ componentAddress # At(Entities(2), 2)
    /\ chains[2].at.componentAddress = InitComponentAddress

-----------------------------------------------------------------------------
(* The instructions the manifest claims speak of *)

IsProof(ins, account, badge) ==
    ins = <<"CALL_METHOD", Address(account), "create_proof_of_amount",
            Address(badge), "Decimal(1)">>

IsMethodCall(ins, component, method) ==
    /\ Len(ins) >= 3
    /\ ins[1] = "CALL_METHOD"
    /\ ins[2] = Address(component)
    /\ ins[3] = method

IsDeposit(ins, account) ==
    ins = <<"CALL_METHOD", Address(account), "deposit_batch",
            "Expression(ENTIRE_WORKTOP)">>

\* the privileged method and the badge of an Admin Action
AdminMethod(action) ==
    CASE action = "setPrice" -> "set_price"
      [] action = "withdrawEarnings" -> "withdraw_earnings"
      [] action = "mintStaffBadge" -> "mint_staff_badge"

AdminBadge(action, at) ==
    IF action = "withdrawEarnings" THEN at.owner_badge ELSE at.admin_badge

\* C6 as claimed: every Admin Action submits a manifest of three parts: the
\* proof of the badge on the caller's account, the privileged call on the
\* current componentAddress, the deposit of everything to the caller's
\* account.
C6_AdminThreeParts ==
    \A c \in Chains :
        chains[c].action \in AdminActions
        => LET m == chains[c].manifest
               at == chains[c].at
           IN  /\ Len(m) = 3
               /\ IsProof(m[1], at.accountAddress, AdminBadge(chains[c].action, at))
               /\ IsMethodCall(m[2], at.componentAddress, AdminMethod(chains[c].action))
               /\ IsDeposit(m[3], at.accountAddress)

\* C6 as amended: every Admin Action's manifest starts with the proof of the
\* badge on the caller's account, followed by the privileged call on the
\* current componentAddress; Withdraw Earnings and Mint Staff Badge end with
\* the deposit of everything to the caller's account, Set Price has no
\* deposit and ends with the privileged call.
C6_AdminManifest ==
    \A c \in Chains :
        chains[c].action \in AdminActions
        => LET m == chains[c].manifest
               at == chains[c].at
           IN  /\ Len(m) = IF chains[c].action = "setPrice" THEN 2 ELSE 3
               /\ IsProof(m[1], at.accountAddress, AdminBadge(chains[c].action, at))
               /\ IsMethodCall(m[2], at.componentAddress, AdminMethod(chains[c].action))
               /\ Len(m) = 3 => IsDeposit(m[3], at.accountAddress)
               /\ \A i \in 1..Len(m) : m[i][3] = "deposit_batch" => i = 3
               /\ chains[c].manifest \in {sent[i] : i \in 1..Len(sent)}

\* a Withdraw Earnings and a Set Price clicked with an account connected
C6_Witness ==
    \E c, d \in Chains :
        /\ chains[c].action = "withdrawEarnings"
        /\ chains[d].action = "setPrice"
        /\ chains[c].at.accountAddress = "addr1"
        /\ chains[d].at.accountAddress = "addr1"

\* C7 as claimed: the manifest Instantiate submits is the call of
\* P::GumballMachine::instantiate_gumball_machine(5, F) followed by the
\* deposit of the worktop to A, and nothing else.
C7_InstantiateAsClaimed ==
    \A c \in Chains :
        chains[c].action = "instantiateComponent"
        => chains[c].manifest =
             << <<"CALL_FUNCTION", Address(chains[c].inputs.packageAddress),
                  "GumballMachine", "instantiate_gumball_machine",
                  "Decimal(5)", Str(chains[c].inputs.flavor)>>,
                <<"CALL_METHOD", Address(chains[c].at.accountAddress),
                  "deposit_batch", "Expression(ENTIRE_WORKTOP)">> >>

\* C7 as amended: in the toolkit front-end the manifest is as claimed; in
\* the wallet-SDK front-end it is the single call of
\* P::GumballMachine::instantiate_gumball_machine(10), with no flavor and no
\* deposit.
C7_InstantiateManifest ==
    \A c \in Chains :
        chains[c].action = "instantiateComponent"
        => /\ chains[c].manifest =
                IF frontend = "toolkit"
                THEN << <<"CALL_FUNCTION", Address(chains[c].inputs.packageAddress),
                          "GumballMachine", "instantiate_gumball_machine",
                          "Decimal(5)", Str(chains[c].inputs.flavor)>>,
                        <<"CALL_METHOD", Address(chains[c].at.accountAddress),
                          "deposit_batch", "Expression(ENTIRE_WORKTOP)">> >>
                ELSE << <<"CALL_FUNCTION", Address(chains[c].inputs.packageAddress),
                          "GumballMachine", "instantiate_gumball_machine",
                          "Decimal(10)">> >>
           /\ chains[c].manifest \in {sent[i] : i \in 1..Len(sent)}

\* the scenario addr1, pkg1, BANANA in the toolkit front-end
C7_Witness ==
    \E c \in Chains :
        /\ frontend = "toolkit"
        /\ chains[c].action = "instantiateComponent"
        /\ chains[c].at.accountAddress = "addr1"
        /\ chains[c].inputs.packageAddress = "pkg1"
        /\ chains[c].inputs.flavor = "BANANA"

\* C8 as claimed: the manifest Buy submits is: withdraw 33 of X from A, take
\* X from the worktop into a bucket, call C's buy_gumball with the bucket,
\* deposit the worktop to A.
C8_BuyAsClaimed ==
    \A c \in Chains :
        chains[c].action = "buyGumball"
        => LET m == chains[c].manifest
               at == chains[c].at
           IN  /\ Len(m) = 4
               /\ IsMethodCall(m[1], at.accountAddress, "withdraw")
               /\ "Decimal(33)" \in {m[1][i] : i \in 1..Len(m[1])}
               /\ \E x \in {m[1][i] : i \in 1..Len(m[1])} :
                     x \in {m[2][i] : i \in 1..Len(m[2])} /\ x # "Decimal(33)"
               /\ IsMethodCall(m[3], at.componentAddress, "buy_gumball")
               /\ IsDeposit(m[4], at.accountAddress)

\* C8 as amended: the manifest Buy submits has four instructions. Toolkit:
\* withdraw 33 of the XRD resource from A, take all of that resource from the
\* worktop into a bucket, call C's buy_gumball with the bucket, deposit the
\* worktop to A. Wallet SDK: the same with the amount 10 in both the withdraw
\* and the take, and the resource a literal of the source.
C8_BuyManifest ==
    \A c \in Chains :
        chains[c].action = "buyGumball"
        => LET at == chains[c].at IN
           /\ chains[c].manifest =
                IF frontend = "toolkit"
                THEN << <<"CALL_METHOD", Address(at.accountAddress), "withdraw",
                          Address(xrdAddress), "Decimal(33)">>,
                        <<"TAKE_ALL_FROM_WORKTOP", Address(xrdAddress),
                          "Bucket(xrd)">>,
                        <<"CALL_METHOD", Address(at.componentAddress),
                          "buy_gumball", "Bucket(xrd)">>,
                        <<"CALL_METHOD", Address(at.accountAddress),
                          "deposit_batch", "Expression(ENTIRE_WORKTOP)">> >>
                ELSE << <<"CALL_METHOD", Address(at.accountAddress),
                          "withdraw_by_amount", "Decimal(10)", Address(SdkResource)>>,
                        <<"TAKE_FROM_WORKTOP_BY_AMOUNT", "Decimal(10)",
                          Address(SdkResource), "Bucket(bucket1)">>,
                        <<"CALL_METHOD", Address(at.componentAddress),
                          "buy_gumball", "Bucket(bucket1)">>,
                        <<"CALL_METHOD", Address(at.accountAddress),
                          "deposit_batch", "Expression(ENTIRE_WORKTOP)">> >>
           /\ chains[c].manifest \in {sent[i] : i \in 1..Len(sent)}

\* a toolkit Buy clicked with addr1 connected and a newly instantiated
\* component stored
C8_Witness ==
    \E c \in Chains :
        /\ frontend = "toolkit"
        /\ chains[c].action = "buyGumball"
        /\ chains[c].at.accountAddress = "addr1"
        /\ chains[c].at.componentAddress = At(Entities(1), 2)

\* C9: Get Price builds no manifest and submits nothing to the wallet; it
\* makes one entity-state lookup, for the componentAddress current at the
\* click, shows field 2 of the returned state as the price, and changes no
\* Session State variable.
C9_GetPriceReadOnly ==
    [][\A c \in DOMAIN chains' :
          (Acts(c) /\ chains'[c].action = "getPrice")
          => LET ch == chains'[c] IN
             /\ Session' = Session
             /\ sent' = sent
             /\ clicks' = clicks
             /\ ch.manifest = <<>>
             /\ c \notin Chains => ch.steps[1].arg = componentAddress
             /\ ch.steps[1] =
                  Step("getEntityDetailsVaultAggregated", ch.at.componentAddress)
             /\ Len(Calls(ch)) = 1
             /\ IF ch.pc = "done"
                THEN /\ ch.steps = <<ch.steps[1], Step("ui", "price")>>
                     /\ \E p \in LedgerPrices :
                           dom' = [dom EXCEPT !["price"] = "\"" \o p \o "\""]
                ELSE dom' = dom]_vars

\* a Get Price has shown the price of a newly instantiated component
C9_Witness ==
    \E c \in Chains :
        /\ chains[c].action = "getPrice"
        /\ chains[c].pc = "done"
        /\ chains[c].at.componentAddress = At(Entities(1), 2)
        /\ dom["price"] = "\"8\""

-----------------------------------------------------------------------------
\* C11 as claimed: when the wallet delivers account data with at least one
\* account, the first account's address and label are stored and shown, in
\* the push-based mode on delivery and in the pull-based mode when the
\* request returns successfully; a pull-based result without an account list
\* changes nothing.
C11_AddressAndLabelBothModes ==
    [][\A accounts \in AccountLists :
          /\ (accounts # <<>>
                /\ (walletData(accounts)
                      \/ \E c \in 1..MaxChains : requestReturn(c, FALSE, accounts)))
             => /\ accountAddress' = accounts[1].address
                /\ dom'["accountAddress"] = accounts[1].address
                /\ dom'["accountName"] = accounts[1].label
          /\ (accounts = <<>>
                /\ \E c \in 1..MaxChains : requestReturn(c, FALSE, accounts))
             => accountAddress' = accountAddress /\ dom' = dom]_vars

\* C11 as amended: when the wallet delivers account data with at least one
\* account, the first account's address is stored in accountAddress and
\* shown, in both modes; the first account's label is shown, and stored
\* nowhere, in the push-based mode only: the pull-based mode neither stores
\* nor shows it. A pull-based result without an account list changes nothing.
C11_FirstAccount ==
    [][/\ frontend = "toolkit"
          => \A accounts \in AccountLists :
                (accounts # <<>> /\ walletData(accounts))
                => /\ accountAddress' = accounts[1].address
                   /\ dom' = [dom EXCEPT
                                !["accountAddress"] = accounts[1].address,
                                !["accountName"] = accounts[1].label]
       /\ frontend = "sdk"
          => \A accounts \in AccountLists, c \in 1..MaxChains :
                requestReturn(c, FALSE, accounts)
                => /\ IF accounts = <<>>
                      THEN accountAddress' = accountAddress /\ dom' = dom
                      ELSE /\ accountAddress' = accounts[1].address
                           /\ dom' = [dom EXCEPT
                                        !["accountAddress"] = accounts[1].address]
                   /\ UNCHANGED <<componentAddress, gum_resourceAddress,
                                  admin_badge, owner_badge>>]_vars

\* a pull-based request has returned accounts: the address is stored and
\* shown, no label is
C11_Witness ==
    \E c \in Chains :
        /\ chains[c].action = "fetchAccountAddress"
        /\ chains[c].pc = "done"
        /\ accountAddress = "addr1"
        /\ dom["accountAddress"] = "addr1"
        /\ dom["accountName"] = ""

\* C12: in every state of the toolkit front-end that a handler or callback
\* can observe, componentAddress, owner_badge, admin_badge and
\* gum_resourceAddress are either all the initial constants or all taken from
\* the committed-details response of one and the same transaction.
C12_AddressesOneGroup ==
    frontend = "toolkit"
    => LET four == <<componentAddress, owner_badge, admin_badge,
                     gum_resourceAddress>>
       IN  \/ four = <<InitComponentAddress, InitOwnerBadge, InitAdminBadge,
                       InitGumResourceAddress>>
           \/ \E c \in Chains :
                 /\ chains[c].action = "instantiateComponent"
                 /\ chains[c].hash # ""
                 /\ four = <<At(Entities(c), 2), At(Entities(c), 3),
                             At(Entities(c), 4), At(Entities(c), 6)>>

\* one Instantiate has stored its addresses while another, whose wallet
\* submission succeeded, was ended by a failing gateway call
C12_Witness ==
    \E c, d \in Chains :
        /\ chains[c].action = "instantiateComponent"
        /\ chains[c].pc = "done"
        /\ lastStored = c
        /\ chains[d].action = "instantiateComponent"
        /\ chains[d].pc = "thrown"
        /\ chains[d].error = "gateway"
        /\ chains[d].hash # ""
        /\ componentAddress = At(Entities(c), 2)

\* C13: the component whose state Set Price reads back after a successful
\* submission is the component that the set_price call of its submitted
\* manifest addresses.
C13_ReadBackSameComponent ==
    \A c \in Chains :
        chains[c].action = "setPrice"
        => \A i \in 1..Len(chains[c].steps) :
              chains[c].steps[i].op = "getEntityDetailsVaultAggregated"
              => chains[c].manifest[2] =
                    <<"CALL_METHOD", Address(chains[c].steps[i].arg), "set_price",
                      DecimalStr(chains[c].inputs.newPrice)>>

====
